---- MODULE Spec2Model ----
(***************************************************************************)
(* Model of the GADS orchestration core: the Session Store                 *)
(* (gads/orchestrator/session.py), the Task Router                         *)
(* (gads/orchestrator/router.py) and the Orchestrator facade with its      *)
(* pipeline loop (gads/orchestrator/core.py).                              *)
(***************************************************************************)
EXTENDS Integers, Sequences, FiniteSets, TLC

VARIABLES
    max_history,   \* SessionManager.max_history (Settings.max_session_history)
    agents,        \* names registered in Orchestrator.agents / AgentRouter.agents
    store,         \* session_dir: session id -> persisted JSON document
    mem,           \* live Session objects, by id
    current,       \* SessionManager._current_session (an id, or None)
    pc,            \* position of the facade call in flight
    frame,         \* arguments and locals of the run / run_pipeline call
    pipeline,      \* Pipeline.steps of the run_pipeline call
    context,       \* the pipeline's shared context map
    result,        \* the PipelineResult being built
    trace,         \* calls made to the collaborators during the call in flight
    ret            \* what the call in flight returned or raised

vars == <<max_history, agents, store, mem, current, pc,
          frame, pipeline, context, result, trace, ret>>

(***************************************************************************)
(* Bounds of the model.                                                    *)
(***************************************************************************)
MaxHistory == 2    \* max_history ranges over 0..MaxHistory
MaxAppended == 4   \* messages appended in one behaviour, all sessions
MaxSteps == 3      \* steps of a pipeline
MaxTruncated == 4  \* cap on truncated_message_count

None == "None"
SessionIds == {"s1", "s2"}

(***************************************************************************)
(* router.py: task types, the task -> agent table, the approval set.       *)
(***************************************************************************)
TaskType ==
    {"game_concept", "system_design", "architecture", "creative_direction",
     "mechanic_design", "level_design", "balancing",
     "implement_feature_2d", "create_scene_2d", "write_script_2d", "debug_2d",
     "implement_feature_3d", "create_scene_3d", "write_script_3d", "debug_3d",
     "visual_style", "asset_spec", "prompt_engineering",
     "test", "validate", "review"}

TASK_AGENT_MAP(t) ==
    CASE t \in {"game_concept", "system_design", "architecture",
                "creative_direction"} -> "architect"
      [] t \in {"mechanic_design", "level_design", "balancing"} -> "designer"
      [] t \in {"implement_feature_2d", "create_scene_2d", "write_script_2d",
                "debug_2d"} -> "developer_2d"
      [] t \in {"implement_feature_3d", "create_scene_3d", "write_script_3d",
                "debug_3d"} -> "developer_3d"
      [] t \in {"visual_style", "asset_spec", "prompt_engineering"}
           -> "art_director"
      [] t \in {"test", "validate", "review"} -> "qa"
      [] OTHER -> None

APPROVAL_REQUIRED == {"game_concept", "architecture", "visual_style"}

AllAgents ==
    {"architect", "designer", "developer_2d", "developer_3d", "art_director",
     "qa"}

\* the agents create_all_agents builds: those of agents.yaml that have an
\* agent class; gads/agents defines no art director (docs/archive)
RegisteredAgents == AllAgents \ {"art_director"}

\* route with the approval flag left at its default (False)
route_ungated(task_type, ctx) ==
    LET agent_name == TASK_AGENT_MAP(task_type) IN
    [ok |-> agent_name # None /\ agent_name \in agents,
     error |-> IF agent_name = None THEN "Unknown task type"
               ELSE IF agent_name \notin agents THEN "Agent not registered"
               ELSE None,
     agent_name |-> agent_name, task_type |-> task_type, context |-> ctx,
     requires_human_approval |-> FALSE]

\* route with every task type marked as requiring approval
route_all_gated(task_type, ctx) ==
    LET agent_name == TASK_AGENT_MAP(task_type) IN
    [ok |-> agent_name # None /\ agent_name \in agents,
     error |-> IF agent_name = None THEN "Unknown task type"
               ELSE IF agent_name \notin agents THEN "Agent not registered"
               ELSE None,
     agent_name |-> agent_name, task_type |-> task_type, context |-> ctx,
     requires_human_approval |-> TRUE]

\* route without the check that the agent is registered
route_unchecked(task_type, ctx) ==
    LET agent_name == TASK_AGENT_MAP(task_type) IN
    [ok |-> agent_name # None,
     error |-> IF agent_name = None THEN "Unknown task type" ELSE None,
     agent_name |-> agent_name, task_type |-> task_type, context |-> ctx,
     requires_human_approval |-> task_type \in APPROVAL_REQUIRED]

\* AgentRouter.route: the decision, or the ValueError it raises.
route(task_type, ctx) ==
    LET agent_name == TASK_AGENT_MAP(task_type) IN
    IF agent_name = None
    THEN [ok |-> FALSE, error |-> "Unknown task type", agent_name |-> None,
          task_type |-> task_type, context |-> ctx,
          requires_human_approval |-> FALSE]
    ELSE IF agent_name \notin agents
    THEN [ok |-> FALSE, error |-> "Agent not registered",
          agent_name |-> agent_name, task_type |-> task_type,
          context |-> ctx, requires_human_approval |-> FALSE]
    ELSE [ok |-> TRUE, error |-> None, agent_name |-> agent_name,
          task_type |-> task_type, context |-> ctx,
          requires_human_approval |-> task_type \in APPROVAL_REQUIRED]

(***************************************************************************)
(* session.py: messages, sessions, truncation, the session manager.        *)
(***************************************************************************)
\* Message(...): timestamp (datetime.now()) is the message's rank in the
\* append order of its session; metadata holds pipeline_step and artifacts.
Message(timestamp, role, content, agent_name, pipeline_step, artifacts) ==
    [role |-> role, agent_name |-> agent_name, content |-> content,
     timestamp |-> timestamp, pipeline_step |-> pipeline_step,
     artifacts |-> artifacts]

\* Python's seq[-n:] for n >= 0: the whole list when n = 0.
LastN(seq, n) ==
    IF n = 0 \/ n >= Len(seq) THEN seq
    ELSE SubSeq(seq, Len(seq) - n + 1, Len(seq))

\* Session.add_message; appended is the history variable of the session:
\* every message ever appended to it, in order
add_message(session, message) ==
    [session EXCEPT !.history = Append(@, message),
                    !.appended = Append(@, message)]

\* datetime.now() of the next message of the session
Now(session) == Len(session.appended) + 1

\* Session.truncate_history
truncate_history(session, max_messages) ==
    IF Len(session.history) <= max_messages THEN session
    ELSE [session EXCEPT
            !.history = LastN(session.history, max_messages),
            !.truncated_message_count =
                @ + (Len(session.history) - max_messages)]

\* a dict with key k set to v
Put(f, k, v) == [x \in DOMAIN f \cup {k} |-> IF x = k THEN v ELSE f[x]]

EmptyMap == [x \in {} |-> None]

\* Session.get_agent_context: creates the agent's empty memory map
get_agent_context(session, agent_name) ==
    IF agent_name \in DOMAIN session.agent_contexts THEN session
    ELSE [session EXCEPT !.agent_contexts = Put(@, agent_name, EmptyMap)]

\* ProjectState(name=..., project_type=...) with its defaults
ProjectState(name, project_type) ==
    [name |-> name, description |-> "", godot_version |-> "4.2",
     project_type |-> project_type, game_design_doc |-> {},
     technical_spec |-> {}, art_spec |-> {}, assets_3d |-> <<>>,
     current_phase |-> "design"]

\* Session(project=ProjectState(...)) as create_session builds it
\* game_design_doc and technical_spec are kept as the set of markers found
\* in their "project_type" and "rendering" entries (none when empty).
\* art_spec is kept as the set of its entries; agent_contexts maps an agent
\* name to the agent's memory map.
NewSession(id, project_type) ==
    [id |-> id,
     project |-> ProjectState("project", project_type),
     history |-> <<>>, truncated_message_count |-> 0,
     agent_contexts |-> EmptyMap, appended |-> <<>>]

\* datetime as model_dump(mode="json") writes it, and as pydantic parses it
isoformat(timestamp) == ToString(timestamp)

fromisoformat(text) == CHOOSE n \in 1..(MaxAppended + 1) : ToString(n) = text

\* Message.model_dump(mode="json"): the JSON object of a message
dump_message(message) ==
    [role |-> message.role, agent_name |-> message.agent_name,
     content |-> message.content,
     timestamp |-> isoformat(message.timestamp),
     metadata |-> [pipeline_step |-> message.pipeline_step,
                   artifacts |-> message.artifacts]]

\* Message.model_validate of such an object
validate_message(data) ==
    Message(fromisoformat(data.timestamp), data.role, data.content,
            data.agent_name, data.metadata.pipeline_step,
            data.metadata.artifacts)

\* session.model_dump(mode="json") as SessionManager.save writes it
model_dump(session) ==
    [id |-> session.id,
     project |-> session.project,
     history |-> [i \in 1..Len(session.history) |->
                     dump_message(session.history[i])],
     truncated_message_count |-> session.truncated_message_count,
     agent_contexts |-> session.agent_contexts,
     appended |-> [i \in 1..Len(session.appended) |->
                      dump_message(session.appended[i])]]

\* a parse that starts the truncation counter again at 0
validate_uncounted(data) ==
    [id |-> data.id,
     project |-> data.project,
     history |-> [i \in 1..Len(data.history) |->
                     validate_message(data.history[i])],
     truncated_message_count |-> 0,
     agent_contexts |-> data.agent_contexts,
     appended |-> [i \in 1..Len(data.appended) |->
                      validate_message(data.appended[i])]]

\* Session.model_validate(json.load(f)) as SessionManager.load reads it
model_validate(data) ==
    [id |-> data.id,
     project |-> data.project,
     history |-> [i \in 1..Len(data.history) |->
                     validate_message(data.history[i])],
     truncated_message_count |-> data.truncated_message_count,
     agent_contexts |-> data.agent_contexts,
     appended |-> [i \in 1..Len(data.appended) |->
                      validate_message(data.appended[i])]]

\* agent_context and history are the context and the history arguments of
\* the last agent.execute call
NoFrame ==
    [op |-> None, session |-> None, user_input |-> None, task_type |-> None,
     agent_name |-> None, step_index |-> 0, step_input |-> None,
     agent_context |-> EmptyMap, history |-> <<>>]

NoStep == "-"

NoResult ==
    [status |-> "pending", outputs |-> EmptyMap, error |-> None,
     error_step |-> None, error_detail |-> None, completed_steps |-> <<>>,
     current_step |-> None]

NoRet == [kind |-> None, agent_name |-> None, content |-> None]

\* the outcome of a call: an exception, an AgentResponse, or the session
\* (its id, or None) that a lookup gives
Raised(exc) == [kind |-> "exception", agent_name |-> None, content |-> exc]

Returned(agent_name, content) ==
    [kind |-> "response", agent_name |-> agent_name, content |-> content]

Found(id) == [kind |-> "session", agent_name |-> None, content |-> id]

\* the state right after Orchestrator.__init__
Init ==
    /\ max_history \in 0..MaxHistory
    /\ agents = RegisteredAgents
    /\ store = EmptyMap
    /\ mem = EmptyMap
    /\ current = None
    /\ pc = "idle"
    /\ frame = NoFrame
    /\ pipeline = <<>>
    /\ context = EmptyMap
    /\ result = NoResult
    /\ trace = <<>>
    /\ ret = NoRet

\* the frame of a facade call is untouched by the session manager's own API
FrameVars == <<pc, frame, pipeline, context, result, trace, ret>>

\* SessionManager.save applied to a live session: truncate, then write
SavedSession(session) == truncate_history(session, max_history)

\* the counter of the session stays within the model's cap after a save
CanSave(session) ==
    SavedSession(session).truncated_message_count <= MaxTruncated

RECURSIVE SumLen(_, _)
SumLen(f, ids) ==
    IF ids = {} THEN 0
    ELSE LET id == CHOOSE x \in ids : TRUE IN
         Len(f[id].appended) + SumLen(f, ids \ {id})

\* messages appended so far to the live sessions
TotalAppended == SumLen(mem, DOMAIN mem)

\* ids no session has yet
FreshIds == {id \in SessionIds : id \notin DOMAIN mem /\ id \notin DOMAIN store}

\* uuid4(): the id the next new session gets (ids are interchangeable)
NewIds == IF FreshIds = {} THEN {} ELSE {CHOOSE id \in FreshIds : TRUE}

\* SessionManager.create_session (Orchestrator.new_project)
CreateSession(id, project_type) ==
    /\ pc = "idle"
    /\ id \in NewIds
    /\ LET session == SavedSession(NewSession(id, project_type)) IN
        /\ mem' = Put(mem, id, session)
        /\ store' = Put(store, id, model_dump(session))
    /\ current' = id
    /\ UNCHANGED <<max_history, agents, FrameVars>>

\* Session.add_message called on a live session by the embedding application
AddMessage(id, role, content) ==
    /\ pc = "idle"
    /\ id \in DOMAIN mem
    /\ TotalAppended < MaxAppended
    /\ LET message == Message(Now(mem[id]), role, content, None, None,
                              FALSE) IN
        mem' = [mem EXCEPT ![id] = add_message(@, message)]
    /\ UNCHANGED <<max_history, agents, store, current, FrameVars>>

\* SessionManager.save
Save(id) ==
    /\ pc = "idle"
    /\ id \in DOMAIN mem
    /\ CanSave(mem[id])
    /\ mem' = [mem EXCEPT ![id] = SavedSession(@)]
    /\ store' = Put(store, id,
                     model_dump(SavedSession(mem[id])))
    /\ UNCHANGED <<max_history, agents, current, FrameVars>>

\* SessionManager.load of a persisted id
Load(id) ==
    /\ pc = "idle"
    /\ id \in DOMAIN store
    /\ mem' = Put(mem, id, model_validate(store[id]))
    /\ current' = id
    /\ UNCHANGED <<max_history, agents, store, FrameVars>>

\* the session SessionManager.load(id) would return
Stored(id) == model_validate(store[id])

\* a load of an absent id that puts a new session in its place
LoadNotFoundCreates(id) ==
    /\ pc = "idle"
    /\ id \notin DOMAIN store
    /\ mem' = Put(mem, id, NewSession(id, "2d"))
    /\ store' = Put(store, id, model_dump(NewSession(id, "2d")))
    /\ current' = id
    /\ ret' = Found(id)
    /\ UNCHANGED <<max_history, agents, pc, frame, pipeline, context, result,
                   trace>>

\* SessionManager.load of an id with no document (session.py 175-176)
LoadNotFound(id) ==
    /\ pc = "idle"
    /\ id \notin DOMAIN store
    /\ ret' = Raised("FileNotFoundError")
    /\ UNCHANGED <<max_history, agents, store, mem, current, pc, frame,
                   pipeline, context, result, trace>>

\* a lookup by id that leaves the current session as it is
GetSessionPeek(session_id) ==
    /\ pc = "idle"
    /\ IF session_id = None
       THEN /\ ret' = Found(current)
            /\ UNCHANGED <<mem, current>>
       ELSE IF session_id \in DOMAIN store
       THEN /\ mem' = Put(mem, session_id, model_validate(store[session_id]))
            /\ current' = current
            /\ ret' = Found(session_id)
       ELSE /\ ret' = Found(None)
            /\ UNCHANGED <<mem, current>>
    /\ UNCHANGED <<max_history, agents, store, pc, frame, pipeline, context,
                   result, trace>>

\* Orchestrator.get_session; session_id is an id or None
GetSession(session_id) ==
    /\ pc = "idle"
    /\ IF session_id = None
       THEN /\ ret' = Found(current)
            /\ UNCHANGED <<mem, current>>
       ELSE IF session_id \in DOMAIN store
       THEN /\ mem' = Put(mem, session_id, model_validate(store[session_id]))
            /\ current' = session_id
            /\ ret' = Found(session_id)
       ELSE /\ ret' = Found(None)
            /\ UNCHANGED <<mem, current>>
    /\ UNCHANGED <<max_history, agents, store, pc, frame, pipeline, context,
                   result, trace>>

SessionNext ==
    \/ \E id \in SessionIds, project_type \in {"2d", "3d"} :
          CreateSession(id, project_type)
    \/ \E id \in SessionIds : AddMessage(id, "human", "text")
    \/ \E id \in SessionIds : Save(id)
    \/ \E id \in SessionIds : Load(id)
    \/ \E id \in SessionIds : LoadNotFound(id)
    \/ \E session_id \in SessionIds \cup {None} : GetSession(session_id)

SessionSpec == Init /\ [][SessionNext]_vars

(***************************************************************************)
(* router.py: classification.                                              *)
(***************************************************************************)
UserInputs == {"Implement a double-jump ability"}

\* requests given to the classification functions
Requests ==
    UserInputs \cup
    {"Implement the player movement", "Create a CharacterBody3D script",
     "Fix the bug in the tilemap", "Design a 3D level",
     "Convert the 2D sprite into a 3D mesh", "Add a sprite for the player",
     "Fix the crash in the Camera2D follow", "Test the new game idea",
     "Review the architecture of the combat code",
     "Tune the difficulty of the tutorial level",
     "Define the visual style for the game",
     "Write a test for the balance script", "Check the texture prompt",
     "Hello there"}

\* the keywords of _keyword_fallback that occur in user_input.lower()
Keywords(user_input) ==
    CASE user_input = "Implement a double-jump ability"
           -> {"implement", "ability"}
      [] user_input = "Implement the player movement" -> {"implement"}
      [] user_input = "Create a CharacterBody3D script"
           -> {"3d", "characterbody3d", "script"}
      [] user_input = "Fix the bug in the tilemap"
           -> {"bug", "fix", "map", "tilemap"}
      [] user_input = "Design a 3D level" -> {"3d", "level"}
      [] user_input = "Convert the 2D sprite into a 3D mesh"
           -> {"2d", "3d", "mesh", "sprite"}
      [] user_input = "Add a sprite for the player" -> {"sprite"}
      [] user_input = "Fix the crash in the Camera2D follow"
           -> {"2d", "camera2d", "fix"}
      [] user_input = "Test the new game idea"
           -> {"idea", "new game", "test"}
      [] user_input = "Review the architecture of the combat code"
           -> {"architecture", "code", "review"}
      [] user_input = "Tune the difficulty of the tutorial level"
           -> {"difficulty", "level"}
      [] user_input = "Define the visual style for the game"
           -> {"style", "visual"}
      [] user_input = "Write a test for the balance script"
           -> {"balance", "script", "test"}
      [] user_input = "Check the texture prompt"
           -> {"check", "prompt", "texture"}
      [] OTHER -> {}

any(user_input, kws) == Keywords(user_input) \cap kws # {}

\* AgentRouter.get_project_type
get_project_type(session) ==
    LET project == session.project IN
    IF "3d" \in project.game_design_doc THEN "3d"
    ELSE IF "2d" \in project.game_design_doc THEN "2d"
    ELSE IF project.technical_spec \cap {"3d", "forward+"} # {} THEN "3d"
    ELSE IF Len(project.assets_3d) > 0 THEN "3d"
    ELSE "2d"

\* the 2D/3D branch shared by the explicit-vocabulary blocks
DevTask(user_input, dim) ==
    IF any(user_input, {"implement", "code", "feature"})
    THEN "implement_feature_" \o dim
    ELSE IF any(user_input, {"scene", "node"}) THEN "create_scene_" \o dim
    ELSE IF any(user_input, {"script", "gdscript"})
    THEN "write_script_" \o dim
    ELSE IF any(user_input, {"bug", "fix", "debug"}) THEN "debug_" \o dim
    ELSE "implement_feature_" \o dim

\* a fallback that looks at the project kind only
fallback_by_kind(user_input, session) ==
    "implement_feature_" \o get_project_type(session)

\* a fallback that knows the generic development phrases only
fallback_generic_only(user_input, session) ==
    LET dim == get_project_type(session) IN
    IF any(user_input, {"implement", "code", "create feature",
                        "add feature"})
    THEN "implement_feature_" \o dim
    ELSE IF any(user_input, {"scene", "node"}) THEN "create_scene_" \o dim
    ELSE IF any(user_input, {"script", "gdscript"})
    THEN "write_script_" \o dim
    ELSE IF any(user_input, {"bug", "fix", "debug", "error"})
    THEN "debug_" \o dim
    ELSE "game_concept"

\* AgentRouter._keyword_fallback
keyword_fallback(user_input, session) ==
    LET dim == get_project_type(session) IN
    IF any(user_input, {"concept", "idea", "game about", "design a game",
                        "new game"}) THEN "game_concept"
    ELSE IF any(user_input, {"architecture", "system design", "structure"})
    THEN "architecture"
    ELSE IF any(user_input, {"mechanic", "gameplay", "ability", "control"})
    THEN "mechanic_design"
    ELSE IF any(user_input, {"level", "map", "environment", "world"})
    THEN "level_design"
    ELSE IF any(user_input, {"balance", "difficulty", "tuning"})
    THEN "balancing"
    ELSE IF any(user_input, {"3d", "mesh", "camera3d", "characterbody3d"})
    THEN DevTask(user_input, "3d")
    ELSE IF any(user_input, {"2d", "sprite", "camera2d", "characterbody2d",
                             "tilemap"})
    THEN DevTask(user_input, "2d")
    ELSE IF any(user_input, {"implement", "code", "create feature",
                             "add feature"})
    THEN "implement_feature_" \o dim
    ELSE IF any(user_input, {"scene", "node"}) THEN "create_scene_" \o dim
    ELSE IF any(user_input, {"script", "gdscript"})
    THEN "write_script_" \o dim
    ELSE IF any(user_input, {"bug", "fix", "debug", "error"})
    THEN "debug_" \o dim
    ELSE IF any(user_input, {"visual", "style", "art direction",
                             "look and feel"}) THEN "visual_style"
    ELSE IF any(user_input, {"asset", "sprite", "model", "texture"})
    THEN "asset_spec"
    ELSE IF any(user_input, {"prompt", "stable diffusion", "generate image"})
    THEN "prompt_engineering"
    ELSE IF any(user_input, {"test", "verify"}) THEN "test"
    ELSE IF any(user_input, {"review", "check", "validate"}) THEN "review"
    ELSE "game_concept"

\* what _call_classifier gives: the text of the reply, or "error" when the
\* call raises (transport error, non-200 status, malformed body)
ClassifierOutcomes ==
    {"game_concept", " Game_Concept ", "not a label", "error"}

\* task_type_str.strip().lower()
strip_lower(text) ==
    CASE text = " Game_Concept " -> "game_concept"
      [] OTHER -> text

\* a classification that answers game_concept when the classifier fails
classify_or_default(user_input, session, outcome) ==
    IF outcome # "error" /\ strip_lower(outcome) \in TaskType
    THEN strip_lower(outcome)
    ELSE "game_concept"

\* AgentRouter.classify_request
classify_request(user_input, session, outcome) ==
    IF outcome # "error" /\ strip_lower(outcome) \in TaskType
    THEN strip_lower(outcome)
    ELSE keyword_fallback(user_input, session)

(***************************************************************************)
(* core.py: the calls the facade makes to its collaborators.               *)
(***************************************************************************)
\* one entry of trace: kind is "approval" (approval_callback), "execute"
\* (agent.execute), "event" (progress_callback) or "save" (session file write)
Call(kind, name, step, agent_name, task_type, value) ==
    [kind |-> kind, name |-> name, step |-> step, agent_name |-> agent_name,
     task_type |-> task_type, value |-> value]

Approval(step, decision, granted) ==
    Call("approval", "approval_callback", step, decision.agent_name,
         decision.task_type, granted)

Execute(step, decision, user_input) ==
    Call("execute", "execute", step, decision.agent_name,
         decision.task_type, user_input)

Emit(event, step) == Call("event", event, step, None, None, None)

SaveCall(id) == Call("save", "save", NoStep, None, None, id)

\* what the awaited agent.execute gave: the content, or "raise"
Reply(step, value) == Call("reply", "execute", step, None, None, value)

\* what agent.execute returns; "raise" stands for any exception it raises
Responses ==
    {[content |-> "c1", artifacts |-> FALSE],
     [content |-> "c2", artifacts |-> TRUE]}

RunTaskTypes == {"game_concept", "mechanic_design", "visual_style"}

\* _build_history_for_agent's default max_messages
max_messages == 10

\* Session.get_recent_history
get_recent_history(session, n) == LastN(session.history, n)

\* the entry _build_history_for_agent makes of a human or agent message
HistoryEntry(message) ==
    [role |-> IF message.role = "human" THEN "user" ELSE "assistant",
     content |-> message.content]

Translated(message) == message.role \in {"human", "agent"}

\* a history that keeps the role names of the session
build_history_untranslated(session) ==
    LET recent == SelectSeq(get_recent_history(session, max_messages),
                            Translated)
    IN [i \in 1..Len(recent) |->
           [role |-> recent[i].role, content |-> recent[i].content]]

\* Orchestrator._build_history_for_agent
build_history_for_agent(session) ==
    LET recent == SelectSeq(get_recent_history(session, max_messages),
                            Translated)
    IN [i \in 1..Len(recent) |-> HistoryEntry(recent[i])]

\* an update that keeps the entries d already has
update_missing(d, other) ==
    [k \in DOMAIN d \cup DOMAIN other |->
        IF k \in DOMAIN d THEN d[k] ELSE other[k]]

\* dict.update: the entries of other replace and extend those of d
update(d, other) ==
    [k \in DOMAIN d \cup DOMAIN other |->
        IF k \in DOMAIN other THEN other[k] ELSE d[k]]

\* the "project" entry of the agent context
ProjectSummary(project) ==
    [name |-> project.name, description |-> project.description,
     godot_version |-> project.godot_version,
     current_phase |-> project.current_phase]

\* Orchestrator._build_agent_context; agent_context is the agent's memory
\* map, which get_agent_context creates empty when the agent has none
build_agent_context(session, agent_name) ==
    LET project == session.project
        base == [k \in {"project", "game_design_doc", "technical_spec",
                        "art_spec"} |->
                    CASE k = "project" -> ProjectSummary(project)
                      [] k = "game_design_doc" -> project.game_design_doc
                      [] k = "technical_spec" -> project.technical_spec
                      [] k = "art_spec" -> project.art_spec]
        agent_context ==
            get_agent_context(session, agent_name).agent_contexts[agent_name]
    IN IF agent_context # EmptyMap
       THEN Put(base, "agent_memory", agent_context)
       ELSE base

\* the context _execute_agent passes to agent.execute (core.py 260-261)
AgentContext(session, decision) ==
    update(build_agent_context(session, decision.agent_name),
           decision.context)

\* memory and store once the facade call has resolved its session
\* how is "given" (session=), "by_id" (session_id=) or "default"
Resolved(how, id) ==
    CASE how = "given" -> [mem |-> mem, store |-> store, current |-> current]
      [] how = "by_id" ->
           [mem |-> Put(mem, id, model_validate(store[id])), store |-> store,
            current |-> id]
      [] how = "default" ->
           IF current # None
           THEN [mem |-> mem, store |-> store, current |-> current]
           ELSE LET session == SavedSession(NewSession(id, "2d")) IN
                [mem |-> Put(mem, id, session),
                 store |-> Put(store, id, model_dump(session)),
                 current |-> id]

\* the ids the facade call can resolve with the given argument
Resolvable(how) ==
    CASE how = "given" -> DOMAIN mem
      [] how = "by_id" -> DOMAIN store
      [] how = "default" -> IF current # None THEN {current} ELSE NewIds

\* Orchestrator.run with session_id of no persisted session: load raises
RunNotFound(id, user_input) ==
    /\ pc = "idle"
    /\ id \notin DOMAIN store
    /\ pc' = "returned"
    /\ frame' = [NoFrame EXCEPT !.op = "run", !.user_input = user_input]
    /\ trace' = <<>>
    /\ ret' = Raised("FileNotFoundError")
    /\ UNCHANGED <<max_history, agents, store, mem, current, pipeline,
                   context, result>>

\* a denial that answers the caller without saving the session
RunDeniedUnsaved(r, id, session, decision) ==
    /\ mem' = Put(r.mem, id, session)
    /\ store' = r.store
    /\ trace' = <<Approval(NoStep, decision, FALSE)>>
    /\ ret' = Returned("system", "Task cancelled by user.")
    /\ pc' = "returned"

\* Orchestrator.run when approval_callback returns false (core.py 221-229):
\* session is the session with the system message appended
RunDenied(r, id, session, decision) ==
    /\ CanSave(session)
    /\ mem' = Put(r.mem, id, SavedSession(session))
    /\ store' = Put(r.store, id,
                     model_dump(SavedSession(session)))
    /\ trace' = <<Approval(NoStep, decision, FALSE), SaveCall(id)>>
    /\ ret' = Returned("system", "Task cancelled by user.")
    /\ pc' = "returned"

\* Orchestrator.run up to the await of agent.execute (core.py 197-268)
\* task_type is the caller's override or None; outcome is the classifier's
\* answer; granted is what approval_callback returns when it is asked
RunStart(how, id, user_input, task_type, outcome, granted) ==
    /\ pc = "idle"
    /\ id \in Resolvable(how)
    /\ TotalAppended + 2 <= MaxAppended
    /\ LET r == Resolved(how, id)
           human == Message(Now(r.mem[id]), "human", user_input, None, None,
                            FALSE)
           s1 == add_message(r.mem[id], human)
           tt == IF task_type = None
                 THEN classify_request(user_input, s1, outcome)
                 ELSE task_type
           decision == route(tt, EmptyMap)
           asked == decision.ok /\ decision.requires_human_approval
           system == Message(Now(s1), "system", "Task cancelled by user.",
                             None, None, FALSE)
           s2 == add_message(s1, system)
           s3 == get_agent_context(s1, decision.agent_name)
       IN
       /\ current' = r.current
       /\ frame' = [NoFrame EXCEPT !.op = "run", !.session = id,
                                   !.user_input = user_input,
                                   !.task_type = tt,
                                   !.agent_name = decision.agent_name,
                                   !.agent_context =
                                       IF decision.ok /\ (asked => granted)
                                       THEN AgentContext(s1, decision)
                                       ELSE EmptyMap,
                                   !.history =
                                       IF decision.ok /\ (asked => granted)
                                       THEN build_history_for_agent(s1)
                                       ELSE <<>>]
       /\ IF ~decision.ok
          THEN \* route raises: the error leaves run
               /\ mem' = Put(r.mem, id, s1)
               /\ store' = r.store
               /\ trace' = <<>>
               /\ ret' = Raised(decision.error)
               /\ pc' = "returned"
          ELSE IF asked /\ ~granted
          THEN RunDenied(r, id, s2, decision)
          ELSE /\ mem' = Put(r.mem, id, s3)
               /\ store' = r.store
               /\ trace' = (IF asked
                            THEN <<Approval(NoStep, decision, TRUE)>>
                            ELSE <<>>)
                           \o <<Execute(NoStep, decision, user_input)>>
               /\ ret' = NoRet
               /\ pc' = "run_execute"
    /\ UNCHANGED <<max_history, agents, pipeline, context, result>>

\* a return that saves the session without recording the agent's message
RunExecuteUnrecorded(response) ==
    /\ pc = "run_execute"
    /\ LET id == frame.session IN
       /\ CanSave(mem[id])
       /\ mem' = [mem EXCEPT ![id] = SavedSession(mem[id])]
       /\ store' = Put(store, id, model_dump(SavedSession(mem[id])))
       /\ trace' = trace \o <<Reply(NoStep, response.content), SaveCall(id)>>
       /\ ret' = Returned(frame.agent_name, response.content)
    /\ pc' = "returned"
    /\ UNCHANGED <<max_history, agents, current, frame, pipeline, context,
                   result>>

\* Orchestrator.run when agent.execute returns (core.py 232-245)
RunExecuteReturns(response) ==
    /\ pc = "run_execute"
    /\ LET id == frame.session
           message == Message(Now(mem[id]), "agent", response.content,
                              frame.agent_name, None, response.artifacts)
           session == add_message(mem[id], message)
       IN
       /\ CanSave(session)
       /\ mem' = [mem EXCEPT ![id] = SavedSession(session)]
       /\ store' = Put(store, id,
                        model_dump(SavedSession(session)))
       /\ trace' = trace \o <<Reply(NoStep, response.content), SaveCall(id)>>
       /\ ret' = Returned(frame.agent_name, response.content)
    /\ pc' = "returned"
    /\ UNCHANGED <<max_history, agents, current, frame, pipeline, context,
                   result>>

\* Orchestrator.run when agent.execute raises: nothing catches it
RunExecuteRaises ==
    /\ pc = "run_execute"
    /\ trace' = Append(trace, Reply(NoStep, "raise"))
    /\ ret' = Raised("agent error")
    /\ pc' = "returned"
    /\ UNCHANGED <<max_history, agents, store, mem, current, frame, pipeline,
                   context, result>>

\* the caller takes the outcome of the call; the orchestrator is idle again
Return ==
    /\ pc = "returned"
    /\ pc' = "idle"
    /\ frame' = NoFrame
    /\ pipeline' = <<>>
    /\ context' = EmptyMap
    /\ result' = NoResult
    /\ trace' = <<>>
    /\ ret' = NoRet
    /\ UNCHANGED <<max_history, agents, store, mem, current>>

Hows == {"given", "by_id", "default"}

(***************************************************************************)
(* pipeline.py and core.py: run_pipeline.                                  *)
(***************************************************************************)
\* PipelineStep; condition is None, or "has_k1" for lambda ctx: "k1" in ctx
PipelineStep(name, task_type, input_key, output_key, condition) ==
    [name |-> name, task_type |-> task_type, input_key |-> input_key,
     output_key |-> output_key, condition |-> condition]

StepShapes ==
    {PipelineStep(None, "mechanic_design", "k1", "k1", None),
     PipelineStep(None, "game_concept", None, "k2", None),
     PipelineStep(None, "implement_feature_2d", "k2", None, "has_k1"),
     PipelineStep(None, "not_a_task", None, None, None)}

StepName(i) == "step" \o ToString(i)

\* the pipelines given to run_pipeline: add_step called n times
Pipelines ==
    UNION {{[i \in 1..n |-> [shapes[i] EXCEPT !.name = StepName(i)]] :
               shapes \in [1..n -> StepShapes]} : n \in 0..MaxSteps}

InitialContexts == {EmptyMap, [k \in {"k1"} |-> "x0"]}

\* a step that runs whatever its condition says
should_execute_always(step, ctx) == TRUE

\* PipelineStep.should_execute
should_execute(step, ctx) ==
    IF step.condition = None THEN TRUE ELSE "k1" \in DOMAIN ctx

\* the value of response.artifacts when it is not empty, and its str()
Artifacts == "artifacts"

str(value) == IF value = Artifacts THEN "{artifacts}" ELSE value

\* a step input that is always the initial input
StepInputInitial(step, ctx) ==
    IF "user_input" \in DOMAIN ctx THEN ctx["user_input"] ELSE ""

\* a step input without the fallback to the initial input
StepInputKeyOnly(step, ctx) ==
    IF step.input_key # None /\ step.input_key \in DOMAIN ctx
    THEN ctx[step.input_key]
    ELSE ""

\* run_pipeline, core.py 373-376
StepInput(step, ctx) ==
    IF step.input_key # None /\ step.input_key \in DOMAIN ctx
    THEN ctx[step.input_key]
    ELSE IF "user_input" \in DOMAIN ctx THEN ctx["user_input"] ELSE ""

\* run_pipeline, core.py 417-420
StoreOutput(step, ctx, response) ==
    IF step.output_key = None THEN ctx
    ELSE LET c1 == Put(ctx, step.output_key, response.content) IN
         IF response.artifacts
         THEN Put(c1, step.output_key \o "_artifacts", Artifacts)
         ELSE c1

\* run_pipeline up to its loop (core.py 337-354)
PipelineStart(how, id, pl, initial_input, initial_context) ==
    /\ pc = "idle"
    /\ how # "by_id"
    /\ id \in Resolvable(how)
    /\ TotalAppended + Len(pl) <= MaxAppended
    /\ LET r == Resolved(how, id) IN
       /\ mem' = r.mem
       /\ store' = r.store
       /\ current' = r.current
    /\ frame' = [NoFrame EXCEPT !.op = "run_pipeline", !.session = id,
                                !.user_input = initial_input]
    /\ pipeline' = pl
    /\ context' = Put(initial_context, "user_input", initial_input)
    /\ result' = [NoResult EXCEPT !.status = "running"]
    /\ trace' = <<>>
    /\ ret' = NoRet
    /\ pc' = "pl_loop"
    /\ UNCHANGED <<max_history, agents>>

\* a failure that returns the failed result without saving the session
PipelineFailsUnsaved(step, error, session, calls) ==
    /\ result' = [result EXCEPT !.current_step = step.name,
                                !.status = "failed",
                                !.error = "failed",
                                !.error_step = step.name,
                                !.error_detail = error]
    /\ trace' = trace \o calls \o
                <<Call("event", "pipeline_failed", step.name, None, None,
                       error)>>
    /\ ret' = [kind |-> "result", agent_name |-> None, content |-> None]
    /\ pc' = "returned"
    /\ UNCHANGED <<mem, store>>

\* a failure that hands the context so far out as the outputs
PipelineFailsWithOutputs(step, error, session, calls) ==
    /\ CanSave(session)
    /\ mem' = [mem EXCEPT ![frame.session] = SavedSession(session)]
    /\ store' = Put(store, frame.session,
                     model_dump(SavedSession(session)))
    /\ result' = [result EXCEPT !.current_step = step.name,
                                !.status = "failed",
                                !.error = "failed",
                                !.error_step = step.name,
                                !.error_detail = error,
                                !.outputs = context]
    /\ trace' = trace \o calls \o
                <<Call("event", "pipeline_failed", step.name, None, None,
                       error),
                  SaveCall(frame.session)>>
    /\ ret' = [kind |-> "result", agent_name |-> None, content |-> None]
    /\ pc' = "returned"

\* the except branch of run_pipeline (core.py 443-453)
PipelineFails(step, error, session, calls) ==
    /\ CanSave(session)
    /\ mem' = [mem EXCEPT ![frame.session] = SavedSession(session)]
    /\ store' = Put(store, frame.session,
                     model_dump(SavedSession(session)))
    /\ result' = [result EXCEPT !.current_step = step.name,
                                !.status = "failed",
                                !.error = "failed",
                                !.error_step = step.name,
                                !.error_detail = error]
    /\ trace' = trace \o calls \o
                <<Call("event", "pipeline_failed", step.name, None, None,
                       error),
                  SaveCall(frame.session)>>
    /\ ret' = [kind |-> "result", agent_name |-> None, content |-> None]
    /\ pc' = "returned"

\* a denial that skips the step and goes on with the next one
PipelineDeniedContinues(step, calls) ==
    /\ result' = [result EXCEPT !.current_step = step.name]
    /\ trace' = trace \o calls \o <<Emit("approval_denied", step.name)>>
    /\ frame' = [frame EXCEPT !.step_index = @ + 1]
    /\ UNCHANGED <<mem, store, ret, pc>>

\* run_pipeline when approval_callback returns false (core.py 399-403);
\* calls are the calls of the pass so far
PipelineDenied(step, calls) ==
    /\ result' = [result EXCEPT !.current_step = step.name,
                                !.status = "cancelled",
                                !.error = "cancelled by user",
                                !.error_step = step.name]
    /\ trace' = trace \o calls \o <<Emit("approval_denied", step.name)>>
    /\ ret' = [kind |-> "result", agent_name |-> None, content |-> None]
    /\ pc' = "returned"
    /\ UNCHANGED <<mem, store, frame>>

\* one pass of the loop of run_pipeline up to the await of agent.execute
\* (core.py 356-414); granted is what approval_callback returns when asked
PipelineLoop(granted) ==
    /\ pc = "pl_loop"
    /\ frame.step_index < Len(pipeline)
    /\ LET step == pipeline[frame.step_index + 1]
           id == frame.session
           is_task == step.task_type \in TaskType
           decision == route(step.task_type, context)
           asked == decision.requires_human_approval
           start == <<Call("event", "step_start", step.name,
                           decision.agent_name, step.task_type, None)>>
                    \o (IF asked
                        THEN <<Emit("approval_needed", step.name),
                               Approval(step.name, decision, granted)>>
                        ELSE <<>>)
       IN
       IF ~should_execute(step, context)
       THEN /\ result' = [result EXCEPT !.current_step = step.name]
            /\ trace' = Append(trace, Emit("step_skipped", step.name))
            /\ frame' = [frame EXCEPT !.step_index = @ + 1]
            /\ UNCHANGED <<mem, store, ret, pc>>
       ELSE IF ~is_task
       THEN /\ PipelineFails(step, "not a valid TaskType", mem[id], <<>>)
            /\ UNCHANGED frame
       ELSE IF ~decision.ok
       THEN /\ PipelineFails(step, decision.error, mem[id], <<>>)
            /\ UNCHANGED frame
       ELSE IF asked /\ ~granted
       THEN PipelineDenied(step, start)
       ELSE /\ result' = [result EXCEPT !.current_step = step.name]
            /\ mem' = [mem EXCEPT
                         ![id] = get_agent_context(@, decision.agent_name)]
            /\ frame' = [frame EXCEPT
                           !.task_type = step.task_type,
                           !.agent_name = decision.agent_name,
                           !.step_input = str(StepInput(step, context)),
                           !.agent_context = AgentContext(mem[id], decision),
                           !.history = build_history_for_agent(mem[id])]
            /\ trace' = trace \o start \o
                        (IF asked
                         THEN <<Emit("approval_granted", step.name)>>
                         ELSE <<>>) \o
                        <<Emit("llm_call_start", step.name),
                          Execute(step.name, decision,
                                  str(StepInput(step, context)))>>
            /\ pc' = "pl_execute"
            /\ UNCHANGED <<store, ret>>
    /\ UNCHANGED <<max_history, agents, current, pipeline, context>>

\* a return that records the agent's message without the name of the step
PipelineExecuteUntagged(response) ==
    /\ pc = "pl_execute"
    /\ LET step == pipeline[frame.step_index + 1]
           id == frame.session
           message == Message(Now(mem[id]), "agent", response.content,
                              frame.agent_name, None, response.artifacts)
       IN
       /\ context' = StoreOutput(step, context, response)
       /\ mem' = [mem EXCEPT ![id] = add_message(@, message)]
       /\ result' = [result EXCEPT !.completed_steps = Append(@, step.name)]
       /\ trace' = trace \o
                   <<Reply(step.name, response.content),
                     Call("event", "step_complete", step.name,
                          frame.agent_name, None, None)>>
    /\ frame' = [frame EXCEPT !.step_index = @ + 1]
    /\ pc' = "pl_loop"
    /\ UNCHANGED <<max_history, agents, store, current, pipeline, ret>>

\* the loop of run_pipeline when agent.execute returns (core.py 414-441)
PipelineExecuteReturns(response) ==
    /\ pc = "pl_execute"
    /\ LET step == pipeline[frame.step_index + 1]
           id == frame.session
           message == Message(Now(mem[id]), "agent", response.content,
                              frame.agent_name, step.name,
                              response.artifacts)
       IN
       /\ context' = StoreOutput(step, context, response)
       /\ mem' = [mem EXCEPT ![id] = add_message(@, message)]
       /\ result' = [result EXCEPT !.completed_steps = Append(@, step.name)]
       /\ trace' = trace \o
                   <<Reply(step.name, response.content),
                     Call("event", "step_complete", step.name,
                          frame.agent_name, None, None)>>
    /\ frame' = [frame EXCEPT !.step_index = @ + 1]
    /\ pc' = "pl_loop"
    /\ UNCHANGED <<max_history, agents, store, current, pipeline, ret>>

\* an agent error that is swallowed: the loop goes on with the next step
PipelineExecuteSwallows ==
    /\ pc = "pl_execute"
    /\ trace' = Append(trace,
                       Reply(pipeline[frame.step_index + 1].name, "raise"))
    /\ frame' = [frame EXCEPT !.step_index = @ + 1]
    /\ pc' = "pl_loop"
    /\ UNCHANGED <<max_history, agents, store, mem, current, pipeline,
                   context, result, ret>>

\* the loop of run_pipeline when agent.execute raises
PipelineExecuteRaises ==
    /\ pc = "pl_execute"
    /\ PipelineFails(pipeline[frame.step_index + 1], "agent error",
                     mem[frame.session],
                     <<Reply(pipeline[frame.step_index + 1].name, "raise")>>)
    /\ UNCHANGED <<max_history, agents, current, frame, pipeline, context>>

\* a completion that emits pipeline_complete before it saves the session
PipelineCompleteEarly ==
    /\ pc = "pl_loop"
    /\ frame.step_index = Len(pipeline)
    /\ LET id == frame.session IN
       /\ CanSave(mem[id])
       /\ mem' = [mem EXCEPT ![id] = SavedSession(@)]
       /\ store' = Put(store, id,
                        model_dump(SavedSession(mem[id])))
       /\ trace' = trace \o <<Emit("pipeline_complete", NoStep), SaveCall(id)>>
    /\ result' = [result EXCEPT !.status = "completed",
                                !.current_step = None,
                                !.outputs = context]
    /\ ret' = [kind |-> "result", agent_name |-> None, content |-> None]
    /\ pc' = "returned"
    /\ UNCHANGED <<max_history, agents, current, frame, pipeline, context>>

\* run_pipeline after its loop (core.py 455-469)
PipelineComplete ==
    /\ pc = "pl_loop"
    /\ frame.step_index = Len(pipeline)
    /\ LET id == frame.session IN
       /\ CanSave(mem[id])
       /\ mem' = [mem EXCEPT ![id] = SavedSession(@)]
       /\ store' = Put(store, id,
                        model_dump(SavedSession(mem[id])))
       /\ trace' = trace \o <<SaveCall(id), Emit("pipeline_complete", NoStep)>>
    /\ result' = [result EXCEPT !.status = "completed",
                                !.current_step = None,
                                !.outputs = context]
    /\ ret' = [kind |-> "result", agent_name |-> None, content |-> None]
    /\ pc' = "returned"
    /\ UNCHANGED <<max_history, agents, current, frame, pipeline, context>>

PipelineNext ==
    \/ \E how \in Hows, id \in SessionIds, pl \in Pipelines,
          initial_input \in UserInputs,
          initial_context \in InitialContexts :
          PipelineStart(how, id, pl, initial_input, initial_context)
    \/ \E granted \in BOOLEAN : PipelineLoop(granted)
    \/ \E response \in Responses : PipelineExecuteReturns(response)
    \/ PipelineExecuteRaises
    \/ PipelineComplete

RunCall ==
    \/ \E id \in SessionIds, user_input \in UserInputs :
          RunNotFound(id, user_input)
    \/ \E how \in Hows, id \in SessionIds, user_input \in UserInputs,
          task_type \in RunTaskTypes \cup {None},
          outcome \in ClassifierOutcomes, granted \in BOOLEAN :
          RunStart(how, id, user_input, task_type, outcome, granted)
    \/ \E response \in Responses : RunExecuteReturns(response)
    \/ RunExecuteRaises

\* any number of run calls, one after the other
RunNext ==
    \/ \E id \in SessionIds, project_type \in {"2d", "3d"} :
          CreateSession(id, project_type)
    \/ RunCall
    \/ Return

RunSpec == Init /\ [][RunNext]_vars

(***************************************************************************)
(* router.py called on its own: one call per behaviour, on a router with   *)
(* some agents registered and one session of some project state.           *)
(***************************************************************************)
\* the registered agents: all, all but one, or none
AgentSets == {AllAgents \ {a} : a \in AllAgents} \cup {AllAgents, {}}

\* ProjectState as the router reads it
Projects ==
    {[ProjectState("project", project_type)
         EXCEPT !.game_design_doc = doc, !.technical_spec = spec,
                !.assets_3d = assets] :
        project_type \in {"2d", "3d"}, doc \in {{}, {"2d"}, {"3d"}},
        spec \in {{}, {"3d"}}, assets \in {<<>>, <<"model.glb">>}}

\* a router with its agents and a session created and then filled in
RouterInit ==
    /\ max_history = MaxHistory
    /\ agents \in AgentSets
    /\ \E project \in Projects :
         LET session == [NewSession("s1", project.project_type)
                            EXCEPT !.project = project] IN
         /\ mem = [id \in {"s1"} |-> session]
         /\ store = [id \in {"s1"} |-> model_dump(session)]
    /\ current = "s1"
    /\ pc = "idle"
    /\ frame = NoFrame
    /\ pipeline = <<>>
    /\ context = EmptyMap
    /\ result = NoResult
    /\ trace = <<>>
    /\ ret = NoRet

\* the values route is called with: the task types and a foreign value
RouteInputs == TaskType \cup {"not_a_task"}

\* what a call of the router gave: a RoutingDecision (content tells
\* whether it requires approval) or a TaskType
Decided(decision) ==
    [kind |-> "decision", agent_name |-> decision.agent_name,
     content |-> IF decision.requires_human_approval
                 THEN "requires_human_approval"
                 ELSE "no approval"]

Classified(task_type) ==
    [kind |-> "task_type", agent_name |-> None, content |-> task_type]

\* AgentRouter.route(task_type, session, context)
Route(id, task_type, ctx) ==
    /\ pc = "idle"
    /\ id \in DOMAIN mem
    /\ LET decision == route(task_type, ctx) IN
       ret' = IF decision.ok THEN Decided(decision)
              ELSE Raised(decision.error)
    /\ frame' = [NoFrame EXCEPT !.op = "route", !.session = id,
                                !.task_type = task_type]
    /\ pc' = "returned"
    /\ UNCHANGED <<max_history, agents, store, mem, current, pipeline,
                   context, result, trace>>

\* AgentRouter.classify_request(user_input, session); outcome is what the
\* classifier call gives
ClassifyRequest(id, user_input, outcome) ==
    /\ pc = "idle"
    /\ id \in DOMAIN mem
    /\ ret' = Classified(classify_request(user_input, mem[id], outcome))
    /\ frame' = [NoFrame EXCEPT !.op = "classify_request", !.session = id,
                                !.user_input = user_input,
                                !.step_input = outcome]
    /\ pc' = "returned"
    /\ UNCHANGED <<max_history, agents, store, mem, current, pipeline,
                   context, result, trace>>

\* AgentRouter._keyword_fallback(user_input, session)
KeywordFallback(id, user_input) ==
    /\ pc = "idle"
    /\ id \in DOMAIN mem
    /\ ret' = Classified(keyword_fallback(user_input, mem[id]))
    /\ frame' = [NoFrame EXCEPT !.op = "_keyword_fallback", !.session = id,
                                !.user_input = user_input]
    /\ pc' = "returned"
    /\ UNCHANGED <<max_history, agents, store, mem, current, pipeline,
                   context, result, trace>>

RouterNext ==
    \/ \E id \in SessionIds, task_type \in RouteInputs,
          ctx \in InitialContexts : Route(id, task_type, ctx)
    \/ \E id \in SessionIds, user_input \in Requests,
          outcome \in ClassifierOutcomes :
          ClassifyRequest(id, user_input, outcome)
    \/ \E id \in SessionIds, user_input \in Requests :
          KeywordFallback(id, user_input)
    \/ RunCall

RouterSpec == RouterInit /\ [][RouterNext]_vars

\* one call of the facade, run or run_pipeline, on a new orchestrator
Next == RunCall \/ PipelineNext

Spec == Init /\ [][Next]_vars

(***************************************************************************)
(* Properties of the facade calls.                                         *)
(***************************************************************************)
Idx == 1..Len(trace)

InRun == frame.op = "run"

InPipeline == frame.op = "run_pipeline"

IsExecute(i) == trace[i].kind = "execute"

IsDenial(i) == trace[i].kind = "approval" /\ trace[i].value = FALSE

IsRaise(i) == trace[i].kind = "reply" /\ trace[i].value = "raise"

IsReturn(i) == trace[i].kind = "reply" /\ trace[i].value # "raise"

ExecuteCall(call) == call.kind = "execute"

ReturnCall(call) == call.kind = "reply" /\ call.value # "raise"

\* the steps of the given calls, in order
StepsOf(calls) == [n \in 1..Len(calls) |-> calls[n].step]

\* the steps whose agent was invoked before position i of trace
ExecutedBefore(i) ==
    StepsOf(SelectSeq(SubSeq(trace, 1, i - 1), ExecuteCall))

\* the steps whose agent returned before position i of trace
ReturnedBefore(i) ==
    StepsOf(SelectSeq(SubSeq(trace, 1, i - 1), ReturnCall))

\* C1: an agent is invoked for an approval-required task type only after
\* approval_callback was called for that request or step and returned true
C1_ApprovalGate ==
    \A i \in Idx :
        IsExecute(i) /\ trace[i].task_type \in APPROVAL_REQUIRED =>
            \E j \in 1..(i - 1) :
                /\ trace[j].kind = "approval"
                /\ trace[j].step = trace[i].step
                /\ trace[j].task_type = trace[i].task_type
                /\ trace[j].value = TRUE

\* an approval-required pipeline step is executed after an earlier step
C1_Witness ==
    /\ InPipeline
    /\ Len(result.completed_steps) >= 1
    /\ \E i \in Idx :
         IsExecute(i) /\ trace[i].task_type \in APPROVAL_REQUIRED

\* C2: a denial at step k ends run_pipeline with status cancelled and an
\* error naming k, completed_steps being exactly the steps executed before
\* k, and neither step k nor a later step is executed
C2_DenialShortCircuit ==
    \A i \in Idx :
        InPipeline /\ IsDenial(i) =>
            /\ pc = "returned"
            /\ result.status = "cancelled"
            /\ result.error = "cancelled by user"
            /\ result.error_step = trace[i].step
            /\ result.completed_steps = ExecutedBefore(i)
            /\ \A j \in Idx :
                 IsExecute(j) => j < i /\ trace[j].step # trace[i].step

\* a denial at a step that follows a completed step and has a successor
C2_Witness ==
    /\ InPipeline
    /\ \E i \in Idx : IsDenial(i)
    /\ Len(result.completed_steps) >= 1
    /\ frame.step_index + 1 < Len(pipeline)

\* C3: an agent error at step k ends run_pipeline with status failed and
\* an error carrying the step name and the error text, completed_steps
\* being exactly the steps completed before k; no later step is executed
C3_FailFast ==
    \A i \in Idx :
        InPipeline /\ IsRaise(i) =>
            /\ pc = "returned"
            /\ result.status = "failed"
            /\ result.error = "failed"
            /\ result.error_step = trace[i].step
            /\ result.error_detail = "agent error"
            /\ result.completed_steps = ReturnedBefore(i)
            /\ \A j \in Idx : IsExecute(j) => j < i

\* steps [A, B, C] where A completed and the agent of B raised
C3_Witness ==
    /\ InPipeline
    /\ Len(pipeline) = 3
    /\ frame.step_index = 1
    /\ result.completed_steps = <<StepName(1)>>
    /\ \E i \in Idx : IsRaise(i) /\ trace[i].step = StepName(2)

StepIdx == 1..Len(pipeline)

Executed(n) == \E i \in Idx : IsExecute(i) /\ trace[i].step = StepName(n)

Completed(n) == \E i \in Idx : IsReturn(i) /\ trace[i].step = StepName(n)

\* the input agent.execute of step n was called with
InputOf(n) ==
    trace[CHOOSE i \in Idx :
              IsExecute(i) /\ trace[i].step = StepName(n)].value

\* the content the agent of step n returned
ContentOf(n) ==
    trace[CHOOSE i \in Idx : IsReturn(i) /\ trace[i].step = StepName(n)].value

\* the completed steps before step n that store their output under key
Producers(key, n) ==
    {i \in StepIdx : i < n /\ Completed(i) /\ pipeline[i].output_key = key}

Last(S) == CHOOSE x \in S : \A y \in S : y <= x

\* C4: the input of an executed step with input_key K is the content
\* returned by the last step completed before it whose output_key is K,
\* and on completion outputs[K] is the content of the last completed step
\* whose output_key is K
C4_ContextThreading ==
    InPipeline =>
        /\ \A n \in StepIdx :
             LET key == pipeline[n].input_key IN
             Executed(n) /\ key # None /\ Producers(key, n) # {} =>
                 InputOf(n) = ContentOf(Last(Producers(key, n)))
        /\ result.status = "completed" =>
             \A n \in StepIdx :
                 LET key == pipeline[n].output_key IN
                 Completed(n) /\ key # None =>
                     /\ key \in DOMAIN result.outputs
                     /\ result.outputs[key] =
                            ContentOf(Last(Producers(key, Len(pipeline) + 1)))

\* a completed pipeline whose last step reads a key that two earlier steps
\* wrote with different contents
C4_Witness ==
    /\ InPipeline
    /\ result.status = "completed"
    /\ Len(pipeline) = 3
    /\ Executed(3)
    /\ pipeline[3].input_key # None
    /\ Producers(pipeline[3].input_key, 3) = {1, 2}
    /\ ContentOf(1) # ContentOf(2)
    /\ InputOf(3) = ContentOf(2)

\* C4 as stated: whenever a step with output_key K and a later step with
\* input_key K both execute, the later step's input is the earlier step's
\* content, and on completion outputs[K] is that content
C4_AsStated ==
    InPipeline =>
        \A m, n \in StepIdx :
            (/\ m < n
             /\ Completed(m)
             /\ Executed(n)
             /\ pipeline[m].output_key # None
             /\ pipeline[m].output_key = pipeline[n].input_key) =>
                /\ InputOf(n) = ContentOf(m)
                /\ result.status = "completed" =>
                       result.outputs[pipeline[m].output_key] = ContentOf(m)

\* C5 as stated: after any save of a session with N > M messages appended,
\* len(history) <= M and truncated_message_count = N - M, and the count
\* never decreases across saves
C5_AsStated ==
    [][\A id \in SessionIds :
         Save(id) =>
             /\ mem'[id].truncated_message_count >=
                    mem[id].truncated_message_count
             /\ Len(mem'[id].appended) > max_history =>
                    /\ Len(mem'[id].history) <= max_history
                    /\ mem'[id].truncated_message_count =
                           Len(mem'[id].appended) - max_history]_vars

\* the messages of the session of the call that the store holds
Persisted ==
    IF frame.session \in DOMAIN store
    THEN Len(Stored(frame.session).appended)
    ELSE 0

\* C6 as stated: during run_pipeline the session is saved after each
\* completed step, before the next agent invocation starts, so the store
\* misses at most the message of one step
C6_AsStated ==
    InPipeline =>
        /\ Len(mem[frame.session].appended) - Persisted <= 1
        /\ pc = "pl_execute" =>
               Persisted = Len(mem[frame.session].appended)

RunDeniedCase ==
    /\ InRun
    /\ pc = "returned"
    /\ \E i \in Idx : IsDenial(i)

\* the last n messages the session was given, as (role, content) pairs
Recent(session, n) ==
    LET all == session.appended
        from == Len(all) - n
    IN [k \in 1..n |-> <<all[from + k].role, all[from + k].content>>]

\* C7: when run is denied, no agent is invoked, the response is authored
\* by "system", the human message and then the system cancellation
\* message were appended, the session is saved before run returns, and the
\* saved history ends with the system message, preceded by the human
\* message unless the history maximum is 1
C7_DeniedRunRecorded ==
    RunDeniedCase =>
        LET session == mem[frame.session]
            n == Len(session.history)
        IN
        /\ \A i \in Idx : ~IsExecute(i)
        /\ ret = Returned("system", "Task cancelled by user.")
        /\ Len(session.appended) >= 2
        /\ Recent(session, 2) = <<<<"human", frame.user_input>>,
                                <<"system", "Task cancelled by user.">>>>
        /\ trace[Len(trace)] = SaveCall(frame.session)
        /\ frame.session \in DOMAIN store
        /\ Stored(frame.session) = session
        /\ n >= 1
        /\ session.history[n] = session.appended[Len(session.appended)]
        /\ max_history # 1 =>
               /\ n >= 2
               /\ session.history[n - 1] =
                      session.appended[Len(session.appended) - 1]

\* run was denied on a session that already had messages
C7_Witness ==
    /\ RunDeniedCase
    /\ Len(mem[frame.session].appended) > 2
    /\ max_history = 2

\* C7 as stated: the session history ends with the human message followed
\* by the system message
C7_AsStated ==
    RunDeniedCase =>
        LET history == mem[frame.session].history
            n == Len(history)
        IN
        /\ n >= 2
        /\ history[n - 1].role = "human"
        /\ history[n - 1].content = frame.user_input
        /\ history[n].role = "system"
        /\ Stored(frame.session) = mem[frame.session]

PipelineFailedCase ==
    /\ InPipeline
    /\ pc = "returned"
    /\ result.status = "failed"

\* the pipeline_step tags of the messages
StepTags(messages) == [k \in 1..Len(messages) |-> messages[k].pipeline_step]

\* C9: when routing or the agent fails at step k, a pipeline_failed event
\* naming k is emitted and the session is saved before run_pipeline
\* returns; the session was given one agent message per completed step and
\* none for step k, and the saved history is the most recent of them that
\* the history maximum keeps
C9_FailedPipelineProgress ==
    PipelineFailedCase =>
        LET session == mem[frame.session]
            k == pipeline[frame.step_index + 1].name
        IN
        /\ result.error_step = k
        /\ \E i \in Idx :
             /\ trace[i].kind = "event"
             /\ trace[i].name = "pipeline_failed"
             /\ trace[i].step = k
        /\ trace[Len(trace)] = SaveCall(frame.session)
        /\ frame.session \in DOMAIN store
        /\ Stored(frame.session) = session
        /\ StepTags(session.appended) = result.completed_steps
        /\ session.history =
               LastN(session.appended, Len(session.history))
        /\ \/ Len(session.history) = Len(session.appended)
           \/ Len(session.history) >= max_history

\* the failure came after two completed steps
C9_Witness ==
    /\ PipelineFailedCase
    /\ Len(result.completed_steps) = 2
    /\ \E i \in Idx : IsRaise(i)

\* C9 as stated: the saved session contains the agent messages of every
\* step completed before k and no message for step k
C9_AsStated ==
    PipelineFailedCase =>
        /\ frame.session \in DOMAIN store
        /\ StepTags(Stored(frame.session).history) = result.completed_steps

\* C10 as stated: when the agent raises during run, the caller gets a
\* structured failed result, not an exception, and the human message
\* appended to the session is persisted
C10_AsStated ==
    (InRun /\ pc = "returned" /\ \E i \in Idx : IsRaise(i)) =>
        /\ ret.kind # "exception"
        /\ frame.session \in DOMAIN store
        /\ Stored(frame.session).appended = mem[frame.session].appended

\* the session whose save is the last thing the call did, if it was one
JustSaved ==
    IF Len(trace) > 0 /\ trace[Len(trace)].kind = "save"
    THEN {trace[Len(trace)].value}
    ELSE {}

C18_AsStated ==
    [][\A id \in SessionIds :
         (/\ Save(id)
          /\ id \in DOMAIN store
          /\ store[id] = model_dump(mem[id])) =>
             /\ mem'[id] = mem[id]
             /\ store' = store]_vars

\* C19: loading an id with no persisted document raises from
\* SessionManager.load and gives None from Orchestrator.get_session; no
\* session or document is created and the persisted set is unchanged
C19_SessionNotFound ==
    [][\A id \in SessionIds :
         id \notin DOMAIN store =>
             /\ (Load(id) \/ LoadNotFound(id)) =>
                    /\ ret' = Raised("FileNotFoundError")
                    /\ UNCHANGED <<store, mem, current>>
             /\ GetSession(id) =>
                    /\ ret' = Found(None)
                    /\ UNCHANGED <<store, mem, current>>]_vars

\* a load of an absent id has raised while another session is persisted
C19_Witness ==
    /\ ret = Raised("FileNotFoundError")
    /\ pc = "idle"
    /\ frame = NoFrame
    /\ DOMAIN store # {}
    /\ \E id \in SessionIds : id \notin DOMAIN store /\ id \notin DOMAIN mem

\* C15 as stated: on a session of kind "2d", the request "Implement a
\* double-jump ability" with no task type and a failing classifier
\* resolves to implement_feature_2d and is routed to developer_2d, whose
\* invocation starts
C15_AsStated ==
    [][\A how \in Hows, id \in SessionIds, granted \in BOOLEAN :
         (/\ RunStart(how, id, "Implement a double-jump ability", None,
                      "error", granted)
          /\ mem'[id].project.project_type = "2d") =>
             /\ frame'.task_type = "implement_feature_2d"
             /\ frame'.agent_name = "developer_2d"
             /\ pc' = "run_execute"]_vars

\* the messages the session run resolves for id had been given before the
\* call: those of the live session, of the loaded document, or none
ResolvedAppended(id) ==
    (IF id \in DOMAIN mem THEN {mem[id].appended} ELSE {<<>>})
    \cup (IF id \in DOMAIN store THEN {Stored(id).appended} ELSE {})

\* C20: a successful run appends to its session exactly the human message
\* with the request text and then exactly the agent message with the
\* response content and the agent's name, and then saves the session (so
\* k successful runs on a new session leave 2k messages before truncation)
C20_RunRecordsHistory ==
    [][/\ (pc = "idle" /\ pc' = "run_execute") =>
             LET id == frame'.session
                 after == mem'[id].appended
                 before == SubSeq(after, 1, Len(after) - 1)
             IN
             /\ Len(after) >= 1
             /\ before \in ResolvedAppended(id)
             /\ after[Len(after)].role = "human"
             /\ after[Len(after)].content = frame'.user_input
             /\ after[Len(after)].agent_name = None
       /\ (pc = "run_execute" /\ pc' = "returned"
           /\ ret'.kind = "response") =>
             LET id == frame.session
                 before == mem[id].appended
                 after == mem'[id].appended
             IN
             /\ Len(after) = Len(before) + 1
             /\ SubSeq(after, 1, Len(before)) = before
             /\ after[Len(after)].role = "agent"
             /\ after[Len(after)].content = ret'.content
             /\ after[Len(after)].agent_name = frame.agent_name
             /\ ret'.agent_name = frame.agent_name
             /\ trace'[Len(trace')] = SaveCall(id)
             /\ store'[id] = model_dump(mem'[id])
             /\ mem'[id].history =
                    LastN(after, Len(mem'[id].history))]_vars

\* the second successful run on a new session has returned: 4 messages
C20_Witness ==
    /\ pc = "returned"
    /\ InRun
    /\ ret.kind = "response"
    /\ ret.agent_name # "system"
    /\ LET all == mem[frame.session].appended IN
       [k \in 1..Len(all) |-> all[k].role] =
           <<"human", "agent", "human", "agent">>

(***************************************************************************)
(* Properties of the router.                                               *)
(***************************************************************************)
RouteCase == pc = "returned" /\ frame.op = "route"

ClassifyCase == pc = "returned" /\ frame.op = "classify_request"

FallbackCase == pc = "returned" /\ frame.op = "_keyword_fallback"

\* C11: for every task type whose mapped agent is registered, route
\* returns the agent of TASK_AGENT_MAP with requires_human_approval true
\* exactly for game_concept, architecture and visual_style, whatever the
\* session, and changes neither the sessions nor the registered agents
C11_RouteLookup ==
    [][\A id \in SessionIds, task_type \in TaskType,
          ctx \in InitialContexts :
         (/\ Route(id, task_type, ctx)
          /\ TASK_AGENT_MAP(task_type) \in agents) =>
             /\ ret'.kind = "decision"
             /\ ret'.agent_name = TASK_AGENT_MAP(task_type)
             /\ (ret'.content = "requires_human_approval") =
                    (task_type \in
                        {"game_concept", "architecture", "visual_style"})
             /\ UNCHANGED <<mem, store, agents, current>>]_vars

\* route gave a decision without approval for a session of a 3D project
\* on a router that lacks another agent
C11_Witness ==
    /\ RouteCase
    /\ ret = [kind |-> "decision", agent_name |-> "developer_3d",
              content |-> "no approval"]
    /\ mem[frame.session].project.project_type = "3d"
    /\ agents = AllAgents \ {"qa"}

\* C12: route raises whenever the task type has no mapped agent or the
\* mapped agent is not registered; inside run the error reaches the
\* caller and no agent is invoked
C12_RoutingFailure ==
    /\ (/\ RouteCase
        /\ \/ TASK_AGENT_MAP(frame.task_type) = None
           \/ TASK_AGENT_MAP(frame.task_type) \notin agents) =>
           /\ ret.kind = "exception"
           /\ ret.content = IF TASK_AGENT_MAP(frame.task_type) = None
                            THEN "Unknown task type"
                            ELSE "Agent not registered"
    /\ (/\ InRun
        /\ frame.task_type # None
        /\ TASK_AGENT_MAP(frame.task_type) \notin agents) =>
           /\ pc = "returned"
           /\ ret = Raised("Agent not registered")
           /\ \A i \in Idx : ~IsExecute(i)

\* run has raised because the designer agent is not registered
C12_Witness ==
    /\ InRun
    /\ pc = "returned"
    /\ frame.task_type = "mechanic_design"
    /\ "designer" \notin agents
    /\ ret = Raised("Agent not registered")

\* C13: classify_request returns the classifier's label (stripped and
\* lower-cased) when it is a task type, and otherwise, for an invalid
\* label or any error of the classifier call, exactly what the keyword
\* fallback gives for the same request and session; it never raises
C13_ClassificationFallback ==
    ClassifyCase =>
        LET outcome == frame.step_input
            label == strip_lower(outcome)
        IN
        /\ ret.kind = "task_type"
        /\ ret.content \in TaskType
        /\ IF outcome # "error" /\ label \in TaskType
           THEN ret.content = label
           ELSE ret.content =
                    keyword_fallback(frame.user_input, mem[frame.session])

\* the classifier call failed and the fallback gave a 3D script task
C13_Witness ==
    /\ ClassifyCase
    /\ frame.step_input = "error"
    /\ frame.user_input = "Create a CharacterBody3D script"
    /\ ret.content = "write_script_3d"

\* keywords _keyword_fallback tests before the 2D/3D vocabulary
DesignKeywords ==
    {"concept", "idea", "game about", "design a game", "new game",
     "architecture", "system design", "structure",
     "mechanic", "gameplay", "ability", "control",
     "level", "map", "environment", "world",
     "balance", "difficulty", "tuning"}

Vocabulary3D == {"3d", "mesh", "camera3d", "characterbody3d"}

Vocabulary2D == {"2d", "sprite", "camera2d", "characterbody2d", "tilemap"}

Tasks3D ==
    {"implement_feature_3d", "create_scene_3d", "write_script_3d",
     "debug_3d"}

Tasks2D ==
    {"implement_feature_2d", "create_scene_2d", "write_script_2d",
     "debug_2d"}

\* C14: for a request with none of the concept, architecture and design
\* keywords, the keyword fallback gives a 3D task type when the request
\* has 3D vocabulary, and a 2D task type when it has 2D vocabulary and no
\* 3D vocabulary, whatever the project kind of the session
C14_DimensionalityOverride ==
    FallbackCase =>
        LET kws == Keywords(frame.user_input) IN
        kws \cap DesignKeywords = {} =>
            /\ kws \cap Vocabulary3D # {} => ret.content \in Tasks3D
            /\ (kws \cap Vocabulary3D = {} /\ kws \cap Vocabulary2D # {}) =>
                   ret.content \in Tasks2D

\* a request with 2D vocabulary on a session of a 3D project
C14_Witness ==
    /\ FallbackCase
    /\ frame.user_input = "Fix the crash in the Camera2D follow"
    /\ get_project_type(mem[frame.session]) = "3d"
    /\ ret.content = "debug_2d"

\* C14 as stated: every request with 3D vocabulary gets a 3D task type
\* and every request with 2D vocabulary gets a 2D task type
C14_AsStated ==
    FallbackCase =>
        LET kws == Keywords(frame.user_input) IN
        /\ kws \cap Vocabulary3D # {} => ret.content \in Tasks3D
        /\ kws \cap Vocabulary2D # {} => ret.content \in Tasks2D

\* C16 as stated: the kind that breaks the tie of a generic development
\* request is the kind recorded on the project state at creation
C16_AsStated ==
    (FallbackCase /\ frame.user_input = "Implement the player movement") =>
        ret.content =
            "implement_feature_" \o mem[frame.session].project.project_type

(***************************************************************************)
(* Properties of the pipeline loop.                                        *)
(***************************************************************************)
\* the position of the step with the given name in the pipeline
StepNo(name) == CHOOSE n \in StepIdx : StepName(n) = name

IsEvent(i, event) == trace[i].kind = "event" /\ trace[i].name = event

Skipped(n) ==
    \E i \in Idx : IsEvent(i, "step_skipped") /\ trace[i].step = StepName(n)

\* the pipeline loop is about to handle a step
AtStep == InPipeline /\ pc = "pl_loop" /\ frame.step_index < Len(pipeline)

\* C21: agents are invoked in declaration order; a step whose condition is
\* false has no agent invoked, emits step_skipped, is not added to
\* completed_steps and the loop goes on with the next step; completed_steps
\* is an order-preserving subsequence of the declared step names
C21_StepOrdering ==
    [][/\ InPipeline' =>
            /\ \A i, j \in 1..Len(trace') :
                 (/\ i < j
                  /\ trace'[i].kind = "execute"
                  /\ trace'[j].kind = "execute") =>
                     StepNo(trace'[i].step) < StepNo(trace'[j].step)
            /\ \A i, j \in 1..Len(result'.completed_steps) :
                 i < j => StepNo(result'.completed_steps[i]) <
                              StepNo(result'.completed_steps[j])
            /\ \A i \in 1..Len(result'.completed_steps) :
                 \E n \in StepIdx : result'.completed_steps[i] = StepName(n)
       /\ AtStep =>
            LET step == pipeline[frame.step_index + 1]
                holds == step.condition = "has_k1" => "k1" \in DOMAIN context
            IN
            IF holds
            THEN /\ trace' # Append(trace, Emit("step_skipped", step.name))
                 /\ \/ pc' = "returned"
                    \/ trace'[Len(trace')] =
                           Execute(step.name,
                                   route(step.task_type, context),
                                   frame'.step_input)
            ELSE /\ trace' = Append(trace, Emit("step_skipped", step.name))
                 /\ result'.completed_steps = result.completed_steps
                 /\ mem' = mem
                 /\ context' = context
                 /\ pc' = "pl_loop"
                 /\ result'.status = "running"
                 /\ frame'.step_index = frame.step_index + 1]_vars

\* step 1 completed, step 2 was skipped and step 3 completed after it
C21_Witness ==
    /\ InPipeline
    /\ Len(pipeline) = 3
    /\ Skipped(2)
    /\ ~Executed(2)
    /\ result.completed_steps = <<StepName(1), StepName(3)>>

\* the names of the events emitted for step n, in order
StepEvents(n) ==
    LET OfStep(call) == call.kind = "event" /\ call.step = StepName(n)
        calls == SelectSeq(trace, OfStep)
    IN [i \in 1..Len(calls) |-> calls[i].name]

IsPrefix(s, t) == Len(s) <= Len(t) /\ s = SubSeq(t, 1, Len(s))

\* PipelineEvent: the events that end the stream
Terminal == {"pipeline_complete", "pipeline_failed", "approval_denied"}

TerminalAt == {i \in Idx : trace[i].kind = "event" /\ trace[i].name \in Terminal}

\* the events of a step that needs approval (gated) or not, by outcome
Gate(gated, answer) ==
    IF gated THEN <<"approval_needed", answer>> ELSE <<>>

StepProtocol(gated) ==
    {<<"step_skipped">>,
     <<"pipeline_failed">>,
     <<"step_start">> \o Gate(gated, "approval_granted") \o
         <<"llm_call_start", "step_complete">>,
     <<"step_start">> \o Gate(gated, "approval_granted") \o
         <<"llm_call_start", "pipeline_failed">>}
    \cup (IF gated
          THEN {<<"step_start", "approval_needed", "approval_denied">>}
          ELSE {})

\* the steps the loop has finished with
Finished ==
    {n \in StepIdx :
        \/ n <= frame.step_index
        \/ n = frame.step_index + 1 /\ pc = "returned"}

\* C22: the events of a step are step_skipped alone, or pipeline_failed alone
\* when its routing fails, or step_start, then approval_needed and one
\* answer only if approval is required, and after a grant llm_call_start
\* followed by step_complete when the agent returns or by pipeline_failed
\* when it raises; a returned call has exactly one terminal event, the last
\* event of the stream, none is emitted before the return, and
\* pipeline_complete directly follows the last save of a completed pipeline
C22_EventProtocol ==
    InPipeline =>
        /\ \A n \in StepIdx :
             LET gated == pipeline[n].task_type \in APPROVAL_REQUIRED IN
             /\ \E t \in StepProtocol(gated) : IsPrefix(StepEvents(n), t)
             /\ n \in Finished => StepEvents(n) \in StepProtocol(gated)
             /\ n \notin Finished /\ n # frame.step_index + 1 =>
                    StepEvents(n) = <<>>
             /\ Executed(n) <=>
                    (Len(StepEvents(n)) >= 1 /\
                     StepEvents(n)[Len(StepEvents(n))] \in
                         {"llm_call_start", "step_complete"}) \/
                    (Len(StepEvents(n)) >= 2 /\
                     StepEvents(n)[Len(StepEvents(n)) - 1] =
                         "llm_call_start")
             /\ Completed(n) /\ n \in Finished <=>
                    (StepEvents(n) # <<>> /\
                     StepEvents(n)[Len(StepEvents(n))] = "step_complete")
        /\ \A i, j \in Idx :
             (/\ i < j
              /\ trace[i].kind = "event"
              /\ trace[j].kind = "event"
              /\ trace[j].step # NoStep) =>
                 /\ trace[i].step # NoStep
                 /\ StepNo(trace[i].step) <= StepNo(trace[j].step)
        /\ pc # "returned" => TerminalAt = {}
        /\ pc = "returned" =>
             /\ Cardinality(TerminalAt) = 1
             /\ \A i \in TerminalAt, j \in Idx :
                  trace[j].kind = "event" => j <= i
        /\ \A i \in Idx :
             (trace[i].kind = "event" /\ trace[i].name = "pipeline_complete")
                => /\ i = Len(trace)
                   /\ i > 1
                   /\ trace[i - 1] = SaveCall(frame.session)
                   /\ store[frame.session] = model_dump(mem[frame.session])
                   /\ result.status = "completed"
                   /\ \A j \in Idx :
                        ~IsRaise(j) /\ ~IsDenial(j) /\
                        ~(trace[j].kind = "event" /\
                          trace[j].name \in {"pipeline_failed",
                                              "approval_denied"})

\* a completed step followed by an approved step whose agent raised
C22_Witness ==
    /\ InPipeline
    /\ pc = "returned"
    /\ Len(pipeline) = 3
    /\ StepEvents(1) = <<"step_start", "llm_call_start", "step_complete">>
    /\ StepEvents(2) = <<"step_start", "approval_needed", "approval_granted",
                         "llm_call_start", "pipeline_failed">>
    /\ StepEvents(3) = <<>>

\* C22 as stated: each step whose agent was invoked emits step_start, then
\* only if approval is required approval_needed and one answer, then
\* llm_call_start, then step_complete; the stream ends with exactly one
\* terminal event, and pipeline_complete follows the final save of a
\* pipeline with no failed or denied step
C22_AsStated ==
    (InPipeline /\ pc = "returned") =>
        /\ \A n \in StepIdx :
             LET gated == pipeline[n].task_type \in APPROVAL_REQUIRED IN
             Executed(n) =>
                 \E answer \in {"approval_granted", "approval_denied"} :
                     StepEvents(n) =
                         <<"step_start">> \o Gate(gated, answer) \o
                         <<"llm_call_start", "step_complete">>
        /\ Cardinality(TerminalAt) = 1
        /\ \A i \in TerminalAt, j \in Idx : trace[j].kind = "event" => j <= i
        /\ \A i \in Idx :
             (trace[i].kind = "event" /\ trace[i].name = "pipeline_complete")
                => /\ trace[i - 1] = SaveCall(frame.session)
                   /\ result.status = "completed"

(***************************************************************************)
(* Properties of the keyword table.                                        *)
(***************************************************************************)
\* a category of the keyword table: its phrases and the task types it gives
Category(keywords, tasks) == [keywords |-> keywords, tasks |-> tasks]

\* the development task types of one dimensionality
DevTasks(dim) ==
    {"implement_feature_" \o dim, "create_scene_" \o dim,
     "write_script_" \o dim, "debug_" \o dim}

\* the categories of _keyword_fallback in the order it checks them, for a
\* session of the given kind
PriorityOrder(dim) ==
    <<Category({"concept", "idea", "game about", "design a game",
                "new game"}, {"game_concept"}),
      Category({"architecture", "system design", "structure"},
               {"architecture"}),
      Category({"mechanic", "gameplay", "ability", "control"},
               {"mechanic_design"}),
      Category({"level", "map", "environment", "world"}, {"level_design"}),
      Category({"balance", "difficulty", "tuning"}, {"balancing"}),
      Category({"3d", "mesh", "camera3d", "characterbody3d"},
               DevTasks("3d")),
      Category({"2d", "sprite", "camera2d", "characterbody2d", "tilemap"},
               DevTasks("2d")),
      Category({"implement", "code", "create feature", "add feature",
                "scene", "node", "script", "gdscript", "bug", "fix", "debug",
                "error"}, DevTasks(dim)),
      Category({"visual", "style", "art direction", "look and feel", "asset",
                "sprite", "model", "texture", "prompt", "stable diffusion",
                "generate image"},
               {"visual_style", "asset_spec", "prompt_engineering"}),
      Category({"test", "verify", "review", "check", "validate"},
               {"test", "review"})>>

\* the categories that match the request, by position
Matching(user_input, dim) ==
    {i \in 1..Len(PriorityOrder(dim)) :
        Keywords(user_input) \cap PriorityOrder(dim)[i].keywords # {}}

First(S) == CHOOSE x \in S : \A y \in S : x <= y

\* C23: the keyword fallback returns a task type of the first category, in
\* the order concept, architecture, mechanic, level, balance, explicit 3D,
\* explicit 2D, generic development by project kind, visual/asset, QA, that
\* has a phrase in the request, and game_concept when no category matches
C23_KeywordPriority ==
    FallbackCase =>
        LET dim == get_project_type(mem[frame.session])
            matching == Matching(frame.user_input, dim)
        IN
        IF matching = {}
        THEN ret.content = "game_concept"
        ELSE ret.content \in PriorityOrder(dim)[First(matching)].tasks

\* a request with phrases of three categories gets the earliest one
C23_Witness ==
    /\ FallbackCase
    /\ frame.user_input = "Write a test for the balance script"
    /\ Matching(frame.user_input, get_project_type(mem[frame.session]))
           = {5, 8, 10}
    /\ ret.content = "balancing"

\* the loop has just invoked the agent of the step it was about to handle
Invoked == AtStep /\ pc' = "pl_execute"

\* C24: the input given to the agent of a step is the context value at the
\* step's input_key when the key is set and in the context at that moment,
\* otherwise the initial input, which the context holds under user_input;
\* a step whose input_key is not in the context receives the initial input
C24_StepInput ==
    [][Invoked =>
         LET step == pipeline[frame.step_index + 1]
             given == trace'[Len(trace')]
         IN
         /\ given.kind = "execute"
         /\ given.step = step.name
         /\ IF step.input_key # None /\ step.input_key \in DOMAIN context
            THEN given.value = context[step.input_key]
            ELSE /\ "user_input" \in DOMAIN context
                 /\ given.value = context["user_input"]
                 /\ given.value = frame.user_input]_vars

\* after a completed step, the agent of a step whose input_key no step has
\* written is invoked with the initial input
C24_Witness ==
    /\ InPipeline
    /\ pc = "pl_execute"
    /\ Len(result.completed_steps) >= 1
    /\ LET step == pipeline[frame.step_index + 1] IN
       /\ step.input_key # None
       /\ step.input_key \notin DOMAIN context
       /\ trace[Len(trace)].kind = "execute"
       /\ trace[Len(trace)].value = frame.user_input

\* C25 as stated: at every point of any sequence of add_message and save,
\* history is the most recent len(history) messages ever appended to the
\* session, in order and unmodified, and truncated_message_count plus
\* len(history) is the number of messages ever appended
C25_AsStated ==
    \A id \in DOMAIN mem :
        LET session == mem[id] IN
        /\ Len(session.history) <= Len(session.appended)
        /\ session.history =
               SubSeq(session.appended,
                      Len(session.appended) - Len(session.history) + 1,
                      Len(session.appended))
        /\ session.truncated_message_count + Len(session.history) =
               Len(session.appended)

(***************************************************************************)
(* core.py: _execute_agent called on its own, once, on a session that was   *)
(* created and then filled in by the embedding application.                *)
(***************************************************************************)
\* the longest history of these sessions
MaxRecent == 12

\* who speaks in turn in a history
RolePatterns ==
    {<<"human", "agent">>, <<"human", "system">>,
     <<"system", "human", "agent">>}

\* the histories: n messages with distinct contents
Histories ==
    {[i \in 1..n |->
         Message(i, pattern[((i - 1) % Len(pattern)) + 1],
                 "m" \o ToString(i), None, None, FALSE)] :
        n \in 0..MaxRecent, pattern \in RolePatterns}

\* the agent memory maps of the session
Memories ==
    {EmptyMap,
     [a \in {"architect"} |-> EmptyMap],
     [a \in {"architect"} |-> [k \in {"notes"} |-> "n1"]],
     [a \in {"architect", "designer"} |->
         [k \in {"notes"} |-> IF a = "architect" THEN "n1" ELSE "n2"]]}

\* the project states: with or without a design document and an art spec
AgentProjects ==
    {[ProjectState("project", "2d")
         EXCEPT !.game_design_doc = doc, !.art_spec = art] :
        doc \in {{}, {"3d"}}, art \in {{}, {"pixel-art"}}}

\* the routing contexts: none, the pipeline context, and contexts with keys
\* the base context has too
DecisionContexts ==
    {EmptyMap,
     [k \in {"user_input"} |-> "x0"],
     [k \in {"user_input", "game_design_doc"} |->
         IF k = "user_input" THEN "x0" ELSE {"2d"}],
     [k \in {"agent_memory", "art_spec"} |->
         IF k = "agent_memory" THEN [n \in {"notes"} |-> "n3"]
         ELSE {"low-poly"}]}

AgentInit ==
    /\ max_history = MaxHistory
    /\ agents = RegisteredAgents
    /\ \E project \in AgentProjects, history \in Histories,
          memory \in Memories :
         /\ mem = [id \in {"s1"} |->
                      [NewSession("s1", "2d")
                          EXCEPT !.project = project, !.history = history,
                                 !.appended = history,
                                 !.agent_contexts = memory]]
         /\ store = [id \in {"s1"} |-> model_dump(NewSession("s1", "2d"))]
    /\ current = "s1"
    /\ pc = "idle"
    /\ frame = NoFrame
    /\ pipeline = <<>>
    /\ context = EmptyMap
    /\ result = NoResult
    /\ trace = <<>>
    /\ ret = NoRet

\* Orchestrator._execute_agent up to the await of agent.execute, with the
\* decision route gives for task_type and ctx (core.py 247-268)
ExecuteAgent(id, task_type, ctx, user_input) ==
    /\ pc = "idle"
    /\ id \in DOMAIN mem
    /\ LET decision == route(task_type, ctx) IN
       /\ decision.ok
       /\ mem' = [mem EXCEPT
                    ![id] = get_agent_context(@, decision.agent_name)]
       /\ frame' = [NoFrame EXCEPT
                      !.op = "_execute_agent", !.session = id,
                      !.user_input = user_input, !.task_type = task_type,
                      !.agent_name = decision.agent_name,
                      !.agent_context = AgentContext(mem[id], decision),
                      !.history = build_history_for_agent(mem[id])]
       /\ context' = decision.context
       /\ trace' = <<Execute(NoStep, decision, user_input)>>
    /\ pc' = "agent_execute"
    /\ UNCHANGED <<max_history, agents, store, current, pipeline, result,
                   ret>>

AgentNext ==
    \E id \in SessionIds, task_type \in RunTaskTypes,
       ctx \in DecisionContexts, user_input \in UserInputs :
       ExecuteAgent(id, task_type, ctx, user_input)

AgentSpec == AgentInit /\ [][AgentNext]_vars

\* agent.execute has just been called
AgentCase == frame.op = "_execute_agent"

\* the keys _build_agent_context takes from the session
BaseKeys == {"project", "game_design_doc", "technical_spec", "art_spec"}

\* the memory map of the invoked agent
Memory == mem[frame.session].agent_contexts[frame.agent_name]

\* C26: the context passed to the agent has the project summary, the three
\* specification blobs, the agent's memory map when it is not empty, and
\* the routing decision's fields; a key of the routing decision carries the
\* routing decision's value, every other key its value from the session
C26_ContextLayering ==
    AgentCase =>
        LET passed == frame.agent_context
            project == mem[frame.session].project
        IN
        /\ DOMAIN passed =
               BaseKeys \cup DOMAIN context \cup
               (IF Memory # EmptyMap THEN {"agent_memory"} ELSE {})
        /\ \A k \in DOMAIN context : passed[k] = context[k]
        /\ "project" \notin DOMAIN context =>
               passed["project"] =
                   [name |-> project.name,
                    description |-> project.description,
                    godot_version |-> project.godot_version,
                    current_phase |-> project.current_phase]
        /\ "game_design_doc" \notin DOMAIN context =>
               passed["game_design_doc"] = project.game_design_doc
        /\ "technical_spec" \notin DOMAIN context =>
               passed["technical_spec"] = project.technical_spec
        /\ "art_spec" \notin DOMAIN context =>
               passed["art_spec"] = project.art_spec
        /\ (Memory # EmptyMap /\ "agent_memory" \notin DOMAIN context) =>
               passed["agent_memory"] = Memory

\* the routing decision overrides the design document of the session and
\* the agent's memory map is passed along with the other base fields
C26_Witness ==
    /\ AgentCase
    /\ frame.agent_name = "architect"
    /\ Memory = [k \in {"notes"} |-> "n1"]
    /\ "game_design_doc" \in DOMAIN context
    /\ mem[frame.session].project.game_design_doc = {"3d"}
    /\ frame.agent_context["game_design_doc"] = {"2d"}
    /\ frame.agent_context["agent_memory"] = Memory
    /\ frame.agent_context["art_spec"] = {"pixel-art"}

\* the positions of the most recent max_messages messages of the session
Window ==
    LET history == mem[frame.session].history IN
    {i \in 1..Len(history) : i > Len(history) - max_messages}

\* those of them that hold a human or an agent message
Kept == {i \in Window : Translated(mem[frame.session].history[i])}

\* the position in the passed history of the message at position i
Rank(i) == Cardinality({k \in Kept : k <= i})

\* C27: the history passed to the agent holds the human and agent messages
\* among the most recent 10 messages of the session, oldest first, a human
\* message as user and an agent message as assistant, with its content;
\* a message of another role in that window is left out
C27_AgentHistory ==
    AgentCase =>
        LET history == mem[frame.session].history IN
        /\ Cardinality(Window) = IF Len(history) < max_messages
                                 THEN Len(history) ELSE max_messages
        /\ Len(frame.history) = Cardinality(Kept)
        /\ \A i \in Kept :
             /\ frame.history[Rank(i)].content = history[i].content
             /\ frame.history[Rank(i)].role =
                    IF history[i].role = "human" THEN "user" ELSE "assistant"

\* a session of more than 10 messages with system messages among the last
\* 10: fewer than 10 messages are passed, the oldest one first
C27_Witness ==
    /\ AgentCase
    /\ Len(mem[frame.session].history) > max_messages
    /\ Kept # Window
    /\ Len(frame.history) \in 2..(max_messages - 1)
    /\ frame.history[1].content =
           mem[frame.session].history[First(Kept)].content
    /\ frame.history[1].role = "assistant"

\* C27 as stated: the history passed to the agent is the most recent 10
\* messages of the session, oldest first, each with its content and with
\* human translated to user and agent to assistant
C27_AsStated ==
    AgentCase =>
        LET history == mem[frame.session].history
            n == IF Len(history) < max_messages
                 THEN Len(history) ELSE max_messages
        IN
        /\ Len(frame.history) = n
        /\ \A j \in 1..n :
             LET message == history[Len(history) - n + j] IN
             /\ j <= Len(frame.history)
             /\ frame.history[j].content = message.content
             /\ message.role = "human" => frame.history[j].role = "user"
             /\ message.role = "agent" =>
                    frame.history[j].role = "assistant"

\* run_pipeline has returned its result
PipelineReturned == InPipeline /\ pc = "returned"

\* C28: the result run_pipeline returns has status completed, failed or
\* cancelled; it is completed exactly when error is absent and current_step
\* is cleared, and outputs is then the final context, with the initial input
\* and the output_key of every executed step; when it is failed or
\* cancelled, current_step is the failing or denied step and outputs is
\* empty
C28_ResultShape ==
    PipelineReturned =>
        /\ result.status \in {"completed", "failed", "cancelled"}
        /\ result.status = "completed" <=>
               (result.error = None /\ result.current_step = None)
        /\ result.status = "completed" =>
               /\ result.outputs = context
               /\ "user_input" \in DOMAIN result.outputs
               /\ result.outputs["user_input"] = frame.user_input
               /\ \A n \in StepIdx :
                    Executed(n) /\ pipeline[n].output_key # None =>
                        pipeline[n].output_key \in DOMAIN result.outputs
        /\ result.status = "failed" =>
               /\ result.outputs = EmptyMap
               /\ \E i \in Idx :
                    /\ IsEvent(i, "pipeline_failed")
                    /\ trace[i].step = result.current_step
        /\ result.status = "cancelled" =>
               /\ result.outputs = EmptyMap
               /\ \E i \in Idx :
                    IsDenial(i) /\ trace[i].step = result.current_step
        /\ result.status # "completed" =>
               result.current_step = StepName(frame.step_index + 1)

\* a pipeline that failed after an earlier step wrote its output into the
\* context
C28_Witness ==
    /\ PipelineReturned
    /\ result.status = "failed"
    /\ Len(result.completed_steps) >= 1
    /\ \E n \in StepIdx :
         /\ Completed(n)
         /\ pipeline[n].output_key # None
         /\ pipeline[n].output_key \in DOMAIN context
    /\ result.outputs = EmptyMap

\* the messages ever appended to the session of the call, before and after
\* a step of the call
AppendedBefore ==
    IF frame.session \in DOMAIN mem THEN mem[frame.session].appended
    ELSE <<>>

AppendedAfter == mem'[frame'.session].appended

\* C29: during run_pipeline the session is appended to exactly when a step
\* completes, with one agent message that carries the step's name, the
\* agent and the content of the response; a skipped, denied or failed step
\* and the start and the end of the call append nothing, so the messages
\* appended during the call are as many as completed_steps
C29_PipelineHistory ==
    [][(InPipeline /\ InPipeline') =>
         IF result'.completed_steps # result.completed_steps
         THEN LET name == result'.completed_steps[
                              Len(result'.completed_steps)]
                  message == AppendedAfter[Len(AppendedAfter)]
              IN
              /\ result'.completed_steps =
                     Append(result.completed_steps, name)
              /\ name = pipeline[frame.step_index + 1].name
              /\ AppendedAfter = Append(AppendedBefore, message)
              /\ message.role = "agent"
              /\ message.pipeline_step = name
              /\ message.agent_name = frame.agent_name
              /\ trace'[Len(trace') - 1] = Reply(name, message.content)
              /\ Len(AppendedAfter) = Len(result'.completed_steps)
         ELSE /\ AppendedAfter = AppendedBefore
              /\ Len(AppendedAfter) = Len(result'.completed_steps)]_vars

\* a pipeline with a completed step, a skipped step and a denied step, and
\* the one message of the completed step
C29_Witness ==
    /\ PipelineReturned
    /\ result.status = "cancelled"
    /\ Skipped(2)
    /\ result.completed_steps = <<StepName(1)>>
    /\ Len(mem[frame.session].appended) = 1
    /\ mem[frame.session].appended[1].role = "agent"
    /\ StepTags(mem[frame.session].appended) = result.completed_steps

(***************************************************************************)
(* The session manager and the facade together: sessions are created,      *)
(* loaded and looked up, and then run or run_pipeline is called once.      *)
(***************************************************************************)
\* the calls: run with a task type given, run_pipeline with one step at most
TrackingPipelines == {pl \in Pipelines : Len(pl) <= 1}

TrackingNext ==
    \/ \E id \in SessionIds : CreateSession(id, "2d")
    \/ \E id \in SessionIds : Load(id)
    \/ \E id \in SessionIds : LoadNotFound(id)
    \/ \E session_id \in SessionIds \cup {None} : GetSession(session_id)
    \/ \E id \in SessionIds, user_input \in UserInputs :
          RunNotFound(id, user_input)
    \/ \E how \in Hows, id \in SessionIds, user_input \in UserInputs :
          RunStart(how, id, user_input, "mechanic_design", "error", TRUE)
    \/ \E response \in Responses : RunExecuteReturns(response)
    \/ RunExecuteRaises
    \/ \E how \in Hows, id \in SessionIds, pl \in TrackingPipelines,
          initial_input \in UserInputs :
          PipelineStart(how, id, pl, initial_input, EmptyMap)
    \/ PipelineLoop(TRUE)
    \/ \E response \in Responses : PipelineExecuteReturns(response)
    \/ PipelineExecuteRaises
    \/ PipelineComplete

TrackingSpec == Init /\ [][TrackingNext]_vars

\* run or run_pipeline has just been called
Called == pc = "idle" /\ frame'.op \in {"run", "run_pipeline"}

\* the call that has just been made was one with no session and no id
CalledDefault ==
    \/ RunStart("default", frame'.session, frame'.user_input,
                "mechanic_design", "error", TRUE)
    \/ PipelineStart("default", frame'.session, pipeline',
                     frame'.user_input, EmptyMap)

====
